---- MODULE Spec2Model ----
(***************************************************************************)
(* pipip: a binary ILP feasibility problem Ax <= b is encoded into CNF    *)
(* (ipsolver.encode_ilp_to_sat), handed to a SAT oracle                    *)
(* (satsolver.solve_sat) and the oracle's assignment is decoded back       *)
(* (ipsolver.decode_solution).  Clauses are sequences of non-zero          *)
(* integers as in the code; A is a sequence of rows, b a sequence of       *)
(* bounds.  Python's 0-based constraint_num is kept 0-based; positions in  *)
(* rows are 1-based (the code's i in 1..num_vars reads coeffs[i-1]).       *)
(***************************************************************************)
EXTENDS Integers, Sequences, FiniteSets, TLC

VARIABLES
    A0, b0,         \* the instance as the caller built it
    A, b,           \* the caller's list objects as they are now
    op,             \* the last operation run
    calls,          \* how many operations ran on A, b
    clauses,        \* the clause list of the last encode_ilp_to_sat
    prev_clauses,   \* the clause list of the call before it
    oracle,         \* how the external resolver behaved in the last solve
    ret,            \* "return" or "raise" for the last solve_ilp, else "none"
    is_sat,         \* first component of the last solve result
    solution,       \* the oracle's assignment, variable -> BOOLEAN
    decoded,        \* decode_solution's result, position i is key x<i>
    exit_code,      \* exit status of main, -1 while it has not ended
    xv              \* the 0/1 vector the cross-check fixed, else <<>>

vars == <<A0, b0, A, b, op, calls, clauses, prev_clauses, oracle, ret, is_sat,
          solution, decoded, exit_code, xv>>

\* ------------------------------------------------------------ bounds
MaxVars == 2
MaxRows == 2
MaxCoef == 1
MaxBound == 2
MaxCalls == 2
RowMaxVars == 2
RowMaxCoef == 2
RowMaxBound == 2
DecMaxVars == 3
DecMaxId == 4

\* ------------------------------------------------------------ helpers
Abs(v) == IF v < 0 THEN -v ELSE v

RECURSIVE Flat(_)
Flat(ss) == IF ss = <<>> THEN <<>> ELSE Head(ss) \o Flat(Tail(ss))

RECURSIVE SumAbs(_)
SumAbs(row) == IF row = <<>> THEN 0 ELSE Abs(Head(row)) + SumAbs(Tail(row))

RECURSIVE Dot(_, _)
Dot(row, x) ==
    IF row = <<>> THEN 0 ELSE Head(row) * Head(x) + Dot(Tail(row), Tail(x))

BoolVecs(n) == [1..n -> {0, 1}]

\* `if not A or not A[0]`
EmptyProblem(M) == M = <<>> \/ M[1] = <<>>

NumVarsOf(M) == IF M = <<>> THEN 0 ELSE Len(M[1])

\* ------------------------------------------------------------ allocator
get_s_idx(M, constraint_num, i, j) ==
    LET num_vars == Len(M[1])
        base_s_idx == 2 * num_vars + 1
        max_sum == SumAbs(M[constraint_num + 1])
        offset == constraint_num * (num_vars + 1) * (max_sum + 1)
    IN  base_s_idx + offset + i * (max_sum + 1) + j

\* ------------------------------------------------------------ normalizer
\* lines 52-56: a negative bound is negated together with every coefficient
Geq(bound) == bound < 0

FlipCoeffs(coeffs, bound) ==
    IF bound < 0 THEN [k \in 1..Len(coeffs) |-> -coeffs[k]] ELSE coeffs

FlipBound(bound) == IF bound < 0 THEN -bound ELSE bound

\* lines 59-62: each coefficient still negative is replaced by its absolute
\* value and the bound grows by that value
RECURSIVE NegWeight(_)
NegWeight(coeffs) ==
    IF coeffs = <<>> THEN 0
    ELSE (IF Head(coeffs) < 0 THEN Abs(Head(coeffs)) ELSE 0) + NegWeight(Tail(coeffs))

\* a normalizer that takes absolute values without moving weight to the bound
NormBound_NoShift(coeffs, bound) == FlipBound(bound)

NormBound(coeffs, bound) == FlipBound(bound) + NegWeight(FlipCoeffs(coeffs, bound))

NormCoeffs(coeffs, bound) ==
    LET fc == FlipCoeffs(coeffs, bound) IN [k \in 1..Len(fc) |-> Abs(fc[k])]

\* `coeffs = A[constraint_num]` is the row object itself unless line 55 built
\* a new list: the in-place writes of line 62 then land in A.
RowAfter(coeffs, bound) == IF Geq(bound) THEN coeffs ELSE NormCoeffs(coeffs, bound)

\* ------------------------------------------------------------ encoder
\* lines 29-33
ComplementClauses(num_vars) ==
    Flat([k \in 1..num_vars |-> << <<-k, -(k + num_vars)>>, <<k, k + num_vars>> >>])

\* lines 67-69
BaseClauses(M, c) ==
    LET max_sum == SumAbs(M[c + 1])
    IN  << <<get_s_idx(M, c, 0, 0)>> >>
        \o [j \in 1..max_sum |-> <<-get_s_idx(M, c, 0, j)>>]

\* line 75, read after the loop of lines 59-62 has rewritten coeffs
VarI(coeffs, i, num_vars) == IF coeffs[i] >= 0 THEN i ELSE i + num_vars

\* the recurrence without the clause that keeps a too-heavy literal out
CellClauses_NoExclusion(M, c, coeffs, i, j) ==
    LET num_vars == Len(coeffs)
        w_i == Abs(coeffs[i])
        var_i == VarI(coeffs, i, num_vars)
        s_ij == get_s_idx(M, c, i, j)
        s_prev_j == get_s_idx(M, c, i - 1, j)
    IN  IF w_i > j
        THEN << <<-s_ij, s_prev_j>>,
                <<-s_prev_j, var_i, s_ij>> >>
        ELSE LET s_prev_j_minus_w == get_s_idx(M, c, i - 1, j - w_i)
             IN  << <<-s_ij, s_prev_j, s_prev_j_minus_w>>,
                    <<-s_ij, s_prev_j, var_i>>,
                    <<-s_ij, -var_i, s_prev_j_minus_w>>,
                    <<-s_prev_j, var_i, s_ij>>,
                    <<-s_prev_j_minus_w, -var_i, s_ij>> >>

\* lines 78-93 for one cell (i, j)
CellClauses(M, c, coeffs, i, j) ==
    LET num_vars == Len(coeffs)
        w_i == Abs(coeffs[i])
        var_i == VarI(coeffs, i, num_vars)
        s_ij == get_s_idx(M, c, i, j)
        s_prev_j == get_s_idx(M, c, i - 1, j)
    IN  IF w_i > j
        THEN << <<-s_ij, s_prev_j>>,
                <<-s_ij, -var_i>>,
                <<-s_prev_j, var_i, s_ij>> >>
        ELSE LET s_prev_j_minus_w == get_s_idx(M, c, i - 1, j - w_i)
             IN  << <<-s_ij, s_prev_j, s_prev_j_minus_w>>,
                    <<-s_ij, s_prev_j, var_i>>,
                    <<-s_ij, -var_i, s_prev_j_minus_w>>,
                    <<-s_prev_j, var_i, s_ij>>,
                    <<-s_prev_j_minus_w, -var_i, s_ij>> >>

\* lines 72-93
RecurrenceClauses(M, c, coeffs) ==
    LET num_vars == Len(coeffs)
        max_sum == SumAbs(coeffs)
    IN  Flat([i \in 1..num_vars |->
              Flat([jj \in 1..(max_sum + 1) |-> CellClauses(M, c, coeffs, i, jj - 1)])])

\* lines 96-110
BoundingClauses(M, c, coeffs, bound, geq) ==
    LET num_vars == Len(coeffs)
        max_sum == SumAbs(coeffs)
    IN  IF ~geq
        THEN IF bound + 1 > max_sum THEN <<>>
             ELSE [k \in 1..(max_sum - bound) |-> <<-get_s_idx(M, c, num_vars, bound + k)>>]
        ELSE IF bound > max_sum
             THEN << <<1>>, <<-1>> >>
             ELSE << [k \in 1..(max_sum - bound + 1) |->
                         get_s_idx(M, c, num_vars, bound + k - 1)] >>

\* One pass of the loop body of lines 46-110 for constraint c (0-based): the
\* clauses it appends and the matrix as the pass leaves it.
ConstraintStep(M, bb, c) ==
    LET row == M[c + 1]
        bound0 == bb[c + 1]
        geq == Geq(bound0)
        coeffs == NormCoeffs(row, bound0)
        bound == NormBound(row, bound0)
        M1 == [M EXCEPT ![c + 1] = RowAfter(row, bound0)]
    IN  [M |-> M1,
         clauses |-> BaseClauses(M1, c)
                     \o RecurrenceClauses(M1, c, coeffs)
                     \o BoundingClauses(M1, c, coeffs, bound, geq)]

RECURSIVE EncodeLoop(_, _, _, _)
EncodeLoop(M, bb, c, acc) ==
    IF c = Len(M) THEN [M |-> M, clauses |-> acc]
    ELSE LET r == ConstraintStep(M, bb, c)
         IN  EncodeLoop(r.M, bb, c + 1, acc \o r.clauses)

\* encode_ilp_to_sat(A, b): the returned clause list and A as the call leaves it
encode_ilp_to_sat(M, bb) ==
    IF EmptyProblem(M) THEN [M |-> M, clauses |-> <<>>]
    ELSE EncodeLoop(M, bb, 0, ComplementClauses(Len(M[1])))

\* ------------------------------------------------------------ assembler
MaxOf(S) == CHOOSE v \in S : \A u \in S : u <= v

AllLits(cls) == UNION {{cls[k][l] : l \in DOMAIN cls[k]} : k \in DOMAIN cls}

\* line 147: max(abs(lit) for clause in clauses for lit in clause) raises
\* ValueError on an empty sequence
HasLiteral(cls) == AllLits(cls) # {}

MaxLit(cls) == MaxOf({Abs(l) : l \in AllLits(cls)})

\* clauses_to_dimacs: a header and one line of tokens per clause, ended by 0
clauses_to_dimacs(cls, num_vars) ==
    [header |-> <<num_vars, Len(cls)>>,
     lines |-> [k \in DOMAIN cls |-> cls[k] \o <<0>>]]

\* parse_dimacs: the header line is skipped, every token "0" is dropped, a
\* line left without numbers adds no clause; num_vars is the largest literal
RECURSIVE ParseLines(_)
ParseLines(lines) ==
    IF lines = <<>> THEN <<>>
    ELSE LET nums == SelectSeq(Head(lines), LAMBDA t : t # 0)
         IN  (IF nums # <<>> THEN <<nums>> ELSE <<>>) \o ParseLines(Tail(lines))

parse_dimacs(dimacs) ==
    LET cls == ParseLines(dimacs.lines)
    IN  [num_vars |-> MaxLit(cls), clauses |-> cls]

\* ------------------------------------------------------------ SAT oracle
\* generate_packages / generate_requirements: variable v is package x<v> at
\* version 2.0 (true) or 1.0 (false); clause i is package c<i>, whose version
\* k requires the k-th literal's variable at the literal's version.  A
\* resolution exists exactly when every clause has a literal that holds.
ClauseSet(cls) == {{cls[k][l] : l \in DOMAIN cls[k]} : k \in DOMAIN cls}

\* All resolutions, found by unit propagation and case split.  Each element
\* [T, F] fixes the variables in T to 2.0 and those in F to 1.0 and satisfies
\* every clause whatever the other variables are; every satisfying
\* assignment extends exactly one element.
RECURSIVE Models(_, _, _)
Models(cs, T, F) ==
    LET open == {c \in cs : ~\E l \in c : (l > 0 /\ l \in T) \/ (l < 0 /\ (-l) \in F)}
        rem(c) == {l \in c : ~((l > 0 /\ l \in F) \/ (l < 0 /\ (-l) \in T))}
        rems == {rem(c) : c \in open}
        units == UNION {r \in rems : Cardinality(r) = 1}
    IN  IF {} \in rems THEN {}
        ELSE IF rems = {} THEN {[T |-> T, F |-> F]}
        ELSE IF units # {}
             THEN IF \E l \in units : (-l) \in units THEN {}
                  ELSE Models(rems, T \cup {l \in units : l > 0},
                              F \cup {-l : l \in {u \in units : u < 0}})
        ELSE LET v == CHOOSE u \in {Abs(l) : l \in UNION rems} :
                          \A w \in {Abs(l) : l \in UNION rems} : u <= w
             IN  Models(rems, T \cup {v}, F) \cup Models(rems, T, F \cup {v})

\* The assignment parse_solution reads back from requirements.txt: one entry
\* per variable package 1..num_vars.  Variables no clause constrains get the
\* version the resolver prefers, the same for all of them (fill).
TotalAssignment(m, fill, num_vars) ==
    [v \in 1..num_vars |-> IF v \in m.T THEN TRUE
                            ELSE IF v \in m.F THEN FALSE ELSE fill]

OracleModes == {"resolves", "fails", "missing"}

\* solve_sat(dimacs_str): the outcomes of one call.  "resolves": the resolver
\* runs to its answer; "fails": it exits non-zero for another reason;
\* "missing": subprocess.run raises because the tool is not installed.
solve_sat(dimacs, mode) ==
    LET p == parse_dimacs(dimacs)
        ms == Models(ClauseSet(p.clauses), {}, {})
    IN  IF mode = "missing" THEN {[kind |-> "raise", is_sat |-> FALSE, solution |-> <<>>]}
        ELSE IF mode = "fails" \/ ms = {}
             THEN {[kind |-> "return", is_sat |-> FALSE, solution |-> <<>>]}
        ELSE {[kind |-> "return", is_sat |-> TRUE,
               solution |-> TotalAssignment(m, fill, p.num_vars)] :
                   m \in ms, fill \in BOOLEAN}

\* ------------------------------------------------------------ decoder
\* a decoder whose missing keys default to true
decode_solution_DefaultTrue(sol, num_vars) ==
    [i \in 1..num_vars |-> IF (IF i \in DOMAIN sol THEN sol[i] ELSE TRUE) THEN 1 ELSE 0]

\* decode_solution: key x<i> is position i of the result
decode_solution(sol, num_vars) ==
    [i \in 1..num_vars |-> IF (IF i \in DOMAIN sol THEN sol[i] ELSE FALSE) THEN 1 ELSE 0]

\* ------------------------------------------------------------ solve_ilp
\* The outcomes of solve_ilp(A, b): what it returns or that it raises, and
\* the matrix and clause list it leaves behind.
solve_ilp(M, bb, mode) ==
    LET enc == encode_ilp_to_sat(M, bb)
    IN  IF ~HasLiteral(enc.clauses)
        THEN {[kind |-> "raise", is_sat |-> FALSE, solution |-> <<>>, decoded |-> <<>>,
               M |-> enc.M, clauses |-> enc.clauses, oracle |-> "none"]}
        ELSE LET dimacs_str == clauses_to_dimacs(enc.clauses, MaxLit(enc.clauses))
             IN  {[kind |-> r.kind, is_sat |-> r.is_sat, solution |-> r.solution,
                   decoded |-> IF r.kind = "return" /\ r.is_sat
                               THEN decode_solution(r.solution, Len(enc.M[1]))
                               ELSE <<>>,
                   M |-> enc.M, clauses |-> enc.clauses, oracle |-> mode] :
                      r \in solve_sat(dimacs_str, mode)}

\* main of ipsolver: the process exit status for one outcome of solve_ilp.
\* Only the except branch calls sys.exit(1); both print branches fall off
\* the end of main.
ExitStatus(r) == IF r.kind = "raise" THEN 1 ELSE 0

\* ------------------------------------------------------------ state machine
Instances(maxRows, maxVars, maxCoef, maxBound) ==
    UNION {[M : [1..m -> [1..n -> (-maxCoef)..maxCoef]],
            bb : [1..m -> (-maxBound)..maxBound]] : m \in 0..maxRows, n \in 0..maxVars}

InitWith(inst) ==
    /\ A0 = inst.M /\ b0 = inst.bb /\ A = inst.M /\ b = inst.bb
    /\ op = "init" /\ calls = 0
    /\ clauses = <<>> /\ prev_clauses = <<>>
    /\ oracle = "none" /\ ret = "none" /\ is_sat = FALSE
    /\ solution = <<>> /\ decoded = <<>>
    /\ exit_code = -1 /\ xv = <<>>

Init == \E inst \in Instances(MaxRows, MaxVars, MaxCoef, MaxBound) : InitWith(inst)

\* a call of encode_ilp_to_sat(A, b) on the caller's lists
EncodeIlpToSat ==
    /\ calls < MaxCalls
    /\ op \in {"init", "encode", "solve_ilp"}
    /\ LET enc == encode_ilp_to_sat(A, b)
       IN  /\ A' = enc.M
           /\ clauses' = enc.clauses
    /\ prev_clauses' = clauses
    /\ op' = "encode" /\ calls' = calls + 1
    /\ oracle' = "none" /\ ret' = "none" /\ is_sat' = FALSE
    /\ solution' = <<>> /\ decoded' = <<>>
    /\ UNCHANGED <<A0, b0, b, exit_code, xv>>

\* a call of solve_ilp(A, b) on the caller's lists
SolveIlp ==
    /\ calls < MaxCalls
    /\ op \in {"init", "encode", "solve_ilp"}
    /\ \E mode \in OracleModes : \E r \in solve_ilp(A, b, mode) :
          /\ A' = r.M
          /\ clauses' = r.clauses
          /\ oracle' = r.oracle
          /\ ret' = r.kind /\ is_sat' = r.is_sat
          /\ solution' = r.solution /\ decoded' = r.decoded
    /\ prev_clauses' = clauses
    /\ op' = "solve_ilp" /\ calls' = calls + 1
    /\ UNCHANGED <<A0, b0, b, exit_code, xv>>

\* one run of the command line on the parsed file: parse_ilp_file gave A, b
Main ==
    /\ op = "init"
    /\ \E mode \in OracleModes : \E r \in solve_ilp(A, b, mode) :
          /\ A' = r.M
          /\ clauses' = r.clauses
          /\ oracle' = r.oracle
          /\ ret' = r.kind /\ is_sat' = r.is_sat
          /\ solution' = r.solution /\ decoded' = r.decoded
          /\ exit_code' = ExitStatus(r)
    /\ prev_clauses' = clauses
    /\ op' = "main" /\ calls' = calls + 1
    /\ UNCHANGED <<A0, b0, b, xv>>

Next == EncodeIlpToSat \/ SolveIlp \/ Main

Spec == Init /\ [][Next]_vars

\* ------------------------------------------------------------ one constraint
\* The cross-check of one constraint: encode a single row, fix a 0/1 vector
\* by unit clauses (variable i to x_i, complement n+i to 1-x_i), ask the
\* oracle, decode.
UnitsFor(x) ==
    LET n == Len(x)
    IN  [k \in 1..(2 * n) |->
            IF k <= n THEN <<IF x[k] = 1 THEN k ELSE -k>>
            ELSE <<IF x[k - n] = 1 THEN -k ELSE k>>]

InitRow ==
    \E n \in 1..RowMaxVars :
        \E row \in [1..n -> (-RowMaxCoef)..RowMaxCoef], c \in (-RowMaxBound)..RowMaxBound :
            InitWith([M |-> <<row>>, bb |-> <<c>>])

EncodeRow == calls = 0 /\ EncodeIlpToSat

SolveSatWith ==
    /\ op = "encode"
    /\ \E x \in BoolVecs(Len(A[1])) :
          LET cls == clauses \o UnitsFor(x)
          IN  \E r \in solve_sat(clauses_to_dimacs(cls, MaxLit(cls)), "resolves") :
                 /\ xv' = x
                 /\ is_sat' = r.is_sat
                 /\ solution' = r.solution
    /\ oracle' = "resolves"
    /\ op' = "solve_sat" /\ calls' = calls + 1
    /\ UNCHANGED <<A0, b0, A, b, clauses, prev_clauses, ret, decoded, exit_code>>

\* a call of decode_solution(solution, len(A[0])) on an assignment at hand
DecodeSolution ==
    /\ op \in {"solve_sat", "given"}
    /\ op = "solve_sat" => is_sat
    /\ decoded' = decode_solution(solution, Len(A[1]))
    /\ op' = "decode" /\ calls' = calls + 1
    /\ UNCHANGED <<A0, b0, A, b, clauses, prev_clauses, oracle, ret, is_sat,
                   solution, exit_code, xv>>

NextRow == EncodeRow \/ SolveSatWith \/ DecodeSolution

SpecRow == InitRow /\ [][NextRow]_vars

\* ------------------------------------------------------------ decoder alone
\* decode_solution on any dictionary: keys are any subset of 1..DecMaxId
Assignments == UNION {[D -> BOOLEAN] : D \in SUBSET (1..DecMaxId)}

InitDecode ==
    \E n \in 0..DecMaxVars, sol \in Assignments :
        /\ A0 = <<[k \in 1..n |-> 0]>> /\ b0 = <<0>>
        /\ A = <<[k \in 1..n |-> 0]>> /\ b = <<0>>
        /\ op = "given" /\ calls = 0
        /\ clauses = <<>> /\ prev_clauses = <<>>
        /\ oracle = "none" /\ ret = "none" /\ is_sat = TRUE
        /\ solution = sol /\ decoded = <<>>
        /\ exit_code = -1 /\ xv = <<>>

NextDecode == DecodeSolution

SpecDecode == InitDecode /\ [][NextDecode]_vars

\* ------------------------------------------------------------ properties
\* direct arithmetic evaluation of Ax <= b
Feasible(M, bb, x) == \A r \in DOMAIN M : Dot(M[r], x) <= bb[r]

SomeFeasible(M, bb) == \E x \in BoolVecs(NumVarsOf(M)) : Feasible(M, bb, x)

Satisfiable(cls) == Models(ClauseSet(cls), {}, {}) # {}

\* the single row of a one-constraint instance, as given and as normalized
Row1 == A0[1]
Bound1 == b0[1]
N1 == Len(A0[1])
Coeffs1 == NormCoeffs(Row1, Bound1)
MaxSum1 == SumAbs(Row1)
S1(i, j) == get_s_idx(A, 0, i, j)

\* the clauses of the one constraint without its bounding clauses, and the
\* recurrence clauses alone
BoundingLen1 == Len(BoundingClauses(A, 0, Coeffs1, NormBound(Row1, Bound1), Geq(Bound1)))
TableClauses1 == SubSeq(clauses, 1, Len(clauses) - BoundingLen1)
RecurrenceSlice1 == SubSeq(clauses, 2 * N1 + MaxSum1 + 2, Len(clauses) - BoundingLen1)

\* every assignment that satisfies the table clauses and agrees with xv
TableModels1 == Models(ClauseSet(TableClauses1 \o UnitsFor(xv)), {}, {})

\* truth of the literal the encoder chose for variable k, under the vector x
ChosenHolds(k, x) ==
    LET var_k == VarI(Coeffs1, k, N1)
    IN  IF var_k <= N1 THEN x[var_k] = 1 ELSE x[var_k - N1] = 0

RECURSIVE PartialSum(_, _)
PartialSum(i, x) ==
    IF i = 0 THEN 0
    ELSE PartialSum(i - 1, x) + (IF ChosenHolds(i, x) THEN Coeffs1[i] ELSE 0)

\* C1: for a single row a, bound c and a 0/1 vector x, a.x <= c holds exactly
\* when the clause list has a satisfying assignment that sets variable i to
\* x_i and complement n+i to 1-x_i.
C1_EncodingMatchesRow ==
    op = "solve_sat" => (is_sat <=> Dot(Row1, xv) <= Bound1)

\* C2: for an instance with several rows the clause list is satisfiable
\* exactly when some 0/1 vector satisfies every row, and with a resolving
\* oracle solve_ilp returns (True, x) only with x feasible and (False, None)
\* only when no vector is feasible.
C2_Equisatisfiable ==
    /\ (op = "encode" /\ calls = 1 /\ Len(A0) >= 2 /\ NumVarsOf(A0) >= 1)
          => (Satisfiable(clauses) <=> SomeFeasible(A0, b0))
    /\ (op = "solve_ilp" /\ calls = 1 /\ Len(A0) >= 2 /\ NumVarsOf(A0) >= 1
            /\ ret = "return" /\ oracle = "resolves")
          => IF is_sat THEN Feasible(A0, b0, decoded) ELSE ~SomeFeasible(A0, b0)

\* C3: the identifier of an accumulator variable is above 2n and differs for
\* every two distinct triples (constraint, row, column) of the instance.
Triples(M) ==
    {<<c, i, j>> : c \in 0..(Len(M) - 1), i \in 0..NumVarsOf(M), j \in 0..MaxOf({SumAbs(M[r]) : r \in DOMAIN M})}

TriplesOf(M) == {t \in Triples(M) : t[3] <= SumAbs(M[t[1] + 1])}

C3_IdentifiersDistinct ==
    (op = "encode" /\ ~EmptyProblem(A)) =>
        \A t \in TriplesOf(A) :
            /\ get_s_idx(A, t[1], t[2], t[3]) > 2 * NumVarsOf(A)
            /\ \A u \in TriplesOf(A) :
                  t # u => get_s_idx(A, t[1], t[2], t[3]) # get_s_idx(A, u[1], u[2], u[3])

\* C4 as stated: for A=[[1,1]], b=[-1] the clause list rejects (0,0) and
\* accepts (1,0), (0,1) and (1,1).
C4_AsStated ==
    (op = "solve_sat" /\ A0 = << <<1, 1>> >> /\ b0 = <<-1>>)
        => (is_sat <=> xv # <<0, 0>>)

\* C4 amended: a negative bound negates the row before it becomes at-least.
\* A=[[1,1]], b=[-1] stands for -x1-x2 >= 1 and is rejected for every
\* (x1,x2); A=[[-1,-1]], b=[-1] stands for x1+x2 >= 1, rejecting (0,0) only.
C4_NegativeBoundFlipsRow ==
    /\ (op = "solve_sat" /\ A0 = << <<1, 1>> >> /\ b0 = <<-1>>) => ~is_sat
    /\ (op = "solve_sat" /\ A0 = << <<-1, -1>> >> /\ b0 = <<-1>>)
          => (is_sat <=> xv # <<0, 0>>)

C4_Witness ==
    op = "solve_sat" /\ A0 = << <<1, 1>> >> /\ b0 = <<-1>> /\ xv = <<1, 0>> /\ ~is_sat

\* C5: encode_ilp_to_sat leaves every coefficient of A and every bound of b
\* as it found them, and a second call on the same lists returns the same
\* clause list.
C5_InputsUntouched ==
    op = "encode" => /\ A = A0
                     /\ b = b0
                     /\ (calls = 2 => clauses = prev_clauses)

\* C6: with no constraints, or rows without coefficients, solve_ilp returns
\* the satisfiable outcome with an empty decoded assignment and raises nothing.
C6_EmptyProblemDefined ==
    (op = "solve_ilp" /\ EmptyProblem(A0)) =>
        (ret = "return" /\ is_sat /\ decoded = <<>>)

\* C7: a run of the command line exits 0 when the instance is found
\* feasible and 1 in every other run, an infeasible instance included.
C7_ExitStatus ==
    op = "main" => exit_code = (IF ret = "return" /\ is_sat THEN 0 ELSE 1)

\* C8: decode_solution(assignment, n) has exactly the keys x1..xn; x_i is 1
\* when the assignment maps i to true and 0 when it maps i to false or has
\* no key i; identifiers above n do not matter; an assignment that agrees
\* with a 0/1 vector x on 1..n decodes to x.
C8_DecoderContract ==
    op = "decode" =>
        LET n == Len(A[1])
            low == [i \in (DOMAIN solution) \cap (1..n) |-> solution[i]]
        IN  /\ DOMAIN decoded = 1..n
            /\ \A i \in 1..n :
                  decoded[i] = (IF i \in DOMAIN solution /\ solution[i] THEN 1 ELSE 0)
            /\ decode_solution(low, n) = decoded
            /\ \A x \in BoolVecs(n) :
                  (\A i \in 1..n : i \in DOMAIN solution /\ (solution[i] <=> x[i] = 1))
                      => decoded = x

C8_Witness ==
    /\ op = "decode" /\ Len(A[1]) = 2
    /\ DOMAIN solution = {1, 3} /\ solution[1] /\ solution[3]
    /\ decoded = <<1, 0>>

\* C9 as stated: in every assignment satisfying the base-row and recurrence
\* clauses, S[i][j] is true exactly when the weighted sum of the first i
\* chosen literals is >= j, and for w_i <= j
\* S[i][j] <=> S[i-1][j] \/ (var_i /\ S[i-1][j-w_i]).
C9_AsStated ==
    op = "solve_sat" =>
        \A m \in TableModels1 : \A i \in 0..N1, j \in 0..MaxSum1 :
            /\ S1(i, j) \in m.T <=> PartialSum(i, xv) >= j
            /\ (i >= 1 /\ Coeffs1[i] <= j) =>
                  (S1(i, j) \in m.T <=>
                      (S1(i - 1, j) \in m.T
                          \/ (ChosenHolds(i, xv) /\ S1(i - 1, j - Coeffs1[i]) \in m.T)))

\* C9 amended: in every assignment satisfying the base-row and recurrence
\* clauses (one exists for every 0/1 vector), S[i][j] is true exactly when
\* the weighted sum of the first i chosen literals is equal to j, and for
\* w_i <= j  S[i][j] <=> (~var_i /\ S[i-1][j]) \/ (var_i /\ S[i-1][j-w_i]).
C9_TableIsExactSum ==
    op = "solve_sat" =>
        /\ TableModels1 # {}
        /\ \A m \in TableModels1 : \A i \in 0..N1, j \in 0..MaxSum1 :
              /\ S1(i, j) \in m.T \cup m.F
              /\ S1(i, j) \in m.T <=> PartialSum(i, xv) = j
              /\ (i >= 1 /\ Coeffs1[i] <= j) =>
                    (S1(i, j) \in m.T <=>
                        ((~ChosenHolds(i, xv) /\ S1(i - 1, j) \in m.T)
                            \/ (ChosenHolds(i, xv) /\ S1(i - 1, j - Coeffs1[i]) \in m.T)))

C9_Witness ==
    /\ op = "solve_sat" /\ A0 = << <<1, 2>> >> /\ xv = <<1, 1>>
    /\ \E m \in TableModels1 : S1(2, 3) \in m.T /\ S1(1, 1) \in m.T /\ S1(2, 1) \in m.F

\* C10: the literal used for variable i in the recurrence clauses is the
\* complement i+n when the coefficient of i is negative after the bound-sign
\* flip and i otherwise, and the bound grows by |coefficient| exactly for
\* the variables represented by their complement.
UsedVars1 == {Abs(l) : l \in AllLits(RecurrenceSlice1)} \cap (1..(2 * N1))

RECURSIVE WeightOf(_, _)
WeightOf(row, ks) ==
    IF ks = {} THEN 0
    ELSE LET k == CHOOSE q \in ks : TRUE IN Abs(row[k]) + WeightOf(row, ks \ {k})

C10_LiteralChoice ==
    op = "encode" =>
        LET fc == FlipCoeffs(Row1, Bound1)
        IN  /\ UsedVars1 = {IF fc[i] < 0 THEN i + N1 ELSE i : i \in 1..N1}
            /\ NormBound(Row1, Bound1)
                 = FlipBound(Bound1) + WeightOf(Row1, {i \in 1..N1 : (i + N1) \in UsedVars1})

====
